---- MODULE Spec2Model ----
(***************************************************************************)
(* The four WebXR programs of the repository (intro, hit-test, depth       *)
(* sensing, depth occlusion) as one state machine.  A program is chosen in *)
(* Init (variable variant); the host platform (WebXR session, frame clock, *)
(* select events) is the environment and supplies the inputs of every      *)
(* callback.  JavaScript runs a callback to completion, so a synchronous   *)
(* handler is one action; an async handler is one action per segment       *)
(* between awaits.  The GL calls a frame callback makes are kept, in       *)
(* order, in the variable calls.                                           *)
(***************************************************************************)
EXTENDS Integers, Sequences, FiniteSets, TLC

\* ------------------------------------------------------------------ bounds
MaxViews   == 2   \* views a viewer pose may carry (AR delivers one)
MaxHits    == 2   \* hit-test results the host may return in one frame
MaxPos     == 1   \* distinct surface positions the host may report
MaxFrames  == 2   \* frame callbacks delivered in one run
MaxSelects == 2   \* select events delivered in one run

\* ------------------------------------------------------------- value sets
Variants == {"intro", "hittest", "depth", "occlusion"}
HitVariants   == {"hittest", "occlusion"}   \* programs with a reticle
DepthVariants == {"depth", "occlusion"}     \* programs with a depth texture
SceneVariants == {"intro", "hittest", "occlusion"}

\* Orientations are rotations about the X axis, in degrees modulo FullTurn.
QuarterTurn == 90
FullTurn == 4 * QuarterTurn
Rotations == {0, QuarterTurn}

Origin == <<0, 0, 0>>
HitPoses == {[pos |-> <<x, 0, 0>>, rot |-> r] : x \in 1..MaxPos, r \in Rotations}

\* A stamp names the frame and the view some data was written for.
NoStamp == [frame |-> 0, view |-> 0]

\* The sequences of at most n distinct elements of S: the host reports each
\* surface a ray meets once, nearest first.
RECURSIVE SeqsUpTo(_, _)
SeqsUpTo(S, n) ==
    IF n = 0 THEN {<<>>}
    ELSE LET shorter == SeqsUpTo(S, n - 1)
         IN  shorter \cup
             UNION { { Append(s, x) : x \in S \ {s[k] : k \in 1..Len(s)} } :
                     s \in {t \in shorter : Len(t) = n - 1} }

VARIABLES
    variant,          \* which program runs
    startPc,          \* position of startARSession
    session,          \* the XRSession, as the program and the host see it
    refSpaces,        \* viewerRefSpace, localRefSpace, unboundedRefSpace defined?
    arHitTestSource,  \* TRUE once the hit-test source is stored
    objs,             \* transform of every GLSceneObject, by object id
    scene,            \* GLScene: object ids in insertion order
    pending,          \* onSelect invocations waiting at their await
    selects,          \* select events delivered so far, with what they saw
    gl,               \* WebGL binding state
    uniforms,         \* uniform values of the program the variant draws with
    depthTexData,     \* stamp of the contents of depthTexture
    calls,            \* host and GL calls of the latest frame callback
    frameNo,          \* frame callbacks delivered
    lastFrame,        \* inputs of the latest frame callback
    tracker,          \* Placement Tracker state: "NoSurface" or "Tracking"
    consoleErrors,    \* messages written with console.error
    frag              \* the fragment the depth shader is run for, if any

vars == <<variant, startPc, session, refSpaces, arHitTestSource, objs, scene,
          pending, selects, gl, uniforms, depthTexData, calls, frameNo,
          lastFrame, tracker, consoleErrors, frag>>


\* No fragment is being shaded.
NoFragment == [fn |-> "none"]

\* ------------------------------------------------- scene objects (framework)
ReticleId == 1      \* reticleSceneObj is the first object added to the scene
ScaleOne  == <<2, 2, 2>>   \* scales are kept in halves: (1, 1, 1)
ScaleHalf == <<1, 1, 1>>   \* (0.5, 0.5, 0.5)
IntroPosition == <<0, 0, -2>>

\* GLSceneObject.rotate(vec3(deg, 0, 0)): turn the orientation about X.
rotate(obj, deg) == [obj EXCEPT !.rot = (@ + deg + FullTurn) % FullTurn]

\* renderer.createModelSceneObjectFromQuats(model, position, rotation, scale):
\* a new object holding its own copy of the transform it is given.
createModelSceneObjectFromQuats(position, rotation, scale, sel) ==
    [pos |-> position, rot |-> rotation, scale |-> scale, sel |-> sel]

\* The objects main() creates before the AR button is wired.
InitialObjects(v) ==
    IF v = "intro"
        THEN << rotate(createModelSceneObjectFromQuats(IntroPosition, 0, ScaleHalf, 0),
                       -QuarterTurn) >>
    ELSE IF v \in HitVariants
        THEN << createModelSceneObjectFromQuats(Origin, 0, ScaleOne, 0) >>
    ELSE << >>

\* --------------------------------------------------------------- GL state
TextureUnits == {0, 1}
UniformNames == {"depthTexture", "depthUVTransform", "depthScale", "resolution",
                 "lights", "projection", "view", "model", "modelInverse", "texture"}
DepthUniforms  == {"depthTexture", "depthUVTransform", "depthScale", "resolution"}
CameraUniforms == {"lights", "projection", "view"}
DrawOps == {"drawArrays", "drawElements"}

InitialGL ==
    [framebuffer |-> "null", program |-> "null", activeTexture |-> 0,
     texture2D |-> [u \in TextureUnits |-> "null"]]

InitialUniforms == [u \in UniformNames |-> [frame |-> 0, view |-> 0, n |-> 0]]

\* The program the variant's frame callback draws with.
ShaderOf(v) == IF v \in DepthVariants THEN "customShader" ELSE "rendererShader"

\* One call of the frame callback: what is called, on what, with which number,
\* for which view (0: none), and the value handed to a setter.
I(op, arg, n, view) == [op |-> op, arg |-> arg, n |-> n, view |-> view, val |-> 0]
IV(op, arg, val)    == [op |-> op, arg |-> arg, n |-> 0, view |-> 0, val |-> val]

\* The depth data a draw call samples: the contents of the depth texture when
\* the custom shader is current and its sampler names the unit the depth
\* texture is bound to.
SampledDepth(c) ==
    IF c.gl.program = "customShader"
       /\ c.gl.texture2D[c.un["depthTexture"].n] = "depthTexture"
    THEN c.tex ELSE NoStamp

\* A callback may be run with one call that throws: the first call of c.fail.op
\* made for view c.fail.view.  NoFail names no call.
NoFail == [op |-> "none", view |-> 0]
Throws(c, i) == i.op = c.fail.op /\ i.view = c.fail.view

\* What a log entry holds as the drawn object when the call draws none.
NoObject == [pos |-> Origin, rot |-> 0, scale |-> <<0, 0, 0>>, sel |-> -1]

\* Effect of one call on the callback's context c: append it to the log and
\* apply what it does to the GL state, the uniforms, the depth texture, the
\* session's callback list or the reticle.  The entry of a draw call keeps the
\* depth data sampled and the transform the object is drawn with, which
\* renderSceneObject reads when it is called.  A call that throws does nothing
\* and ends the callback: no later call is made.
Emit(c, i) ==
    LET stamp  == [frame |-> c.frame, view |-> i.view]
        entry  == [op |-> i.op, arg |-> i.arg, n |-> i.n, view |-> i.view,
                   data |-> IF i.op \in DrawOps THEN SampledDepth(c) ELSE NoStamp,
                   obj  |-> IF i.op = "drawElements" THEN c.objs[i.n] ELSE NoObject]
        logged == [c EXCEPT !.calls = Append(@, entry)]
    IN  CASE c.thrown    -> c
          [] Throws(c, i) -> [c EXCEPT !.thrown = TRUE]
          [] i.op = "requestAnimationFrame" -> [logged EXCEPT !.raf = @ + 1]
          [] i.op = "bindFramebuffer" -> [logged EXCEPT !.gl.framebuffer = i.arg]
          [] i.op = "useProgram"      -> [logged EXCEPT !.gl.program = i.arg]
          [] i.op = "activeTexture"   -> [logged EXCEPT !.gl.activeTexture = i.n]
          [] i.op = "bindTexture"     ->
                [logged EXCEPT !.gl.texture2D[c.gl.activeTexture] = i.arg]
          [] i.op = "texImage2D"      ->
                IF c.gl.texture2D[c.gl.activeTexture] = "depthTexture"
                    THEN [logged EXCEPT !.tex = stamp]
                    ELSE logged
          [] i.op = "uniform"         ->
                IF c.gl.program = "null" THEN logged
                ELSE [logged EXCEPT !.un[i.arg] =
                         [frame |-> c.frame, view |-> i.view, n |-> i.n]]
          [] i.op = "setPosition"     -> [logged EXCEPT !.objs[ReticleId].pos = i.val]
          [] i.op = "setRotation"     -> [logged EXCEPT !.objs[ReticleId].rot = i.val]
          [] OTHER -> logged

\* The calls of a statement list, applied in order.  Frames count from 1, so
\* the test of c.frame never holds; it has TLC evaluate the context at every
\* step rather than at the end of the list.
RECURSIVE Run(_, _)
Run(c, is) ==
    IF is = << >> \/ c.frame = 0 THEN c ELSE Run(Emit(c, Head(is)), Tail(is))

\* renderer.renderSceneObject(obj, ...): bind the object's texture on unit 0,
\* write the per-object uniforms and draw the object's geometry.
renderSceneObject(c, id, view) ==
    Run(c, << I("activeTexture", "TEXTURE0", 0, view),
              I("bindTexture", "objectTexture", id, view),
              I("uniform", "texture", 0, view),
              I("uniform", "model", id, view),
              I("uniform", "modelInverse", id, view),
              I("drawElements", "sceneObject", id, view) >>)

\* The scene object loop running from the last object to the first.
RECURSIVE SceneObjectLoopBackwards(_, _, _)
SceneObjectLoopBackwards(c, k, view) ==
    IF k > Len(scene) THEN c
    ELSE SceneObjectLoopBackwards(
            renderSceneObject(c, scene[Len(scene) + 1 - k], view), k + 1, view)

\* for (let i = 0; i < sceneObjects.length; i++) renderSceneObject(...)
RECURSIVE SceneObjectLoop(_, _, _)
SceneObjectLoop(c, k, view) ==
    IF k > Len(scene) THEN c
    ELSE SceneObjectLoop(renderSceneObject(c, scene[k], view), k + 1, view)

\* --------------------------------------------------------- frame callback
\* What the host hands to one frame callback: whether getViewerPose returns a
\* pose, how many views it has, for which views getDepthInformation returns a
\* snapshot, the hit-test results, and whether the first result's getPose
\* resolves in the unbounded reference space.
NoDepth == [v \in 1..MaxViews |-> FALSE]

DepthChoices(nv) ==
    { f \in [1..MaxViews -> BOOLEAN] :
        \A v \in 1..MaxViews : f[v] => (v <= nv /\ variant \in DepthVariants) }

HitChoices ==
    IF variant \in HitVariants /\ arHitTestSource
        THEN SeqsUpTo(HitPoses, MaxHits) ELSE { << >> }

Resolvable(h) == IF h = << >> THEN {FALSE} ELSE BOOLEAN

\* Frames without a viewer pose: the views and their depth snapshots come with
\* the pose, the hit-test results do not.
NoPoseInputs(h) ==
    { [pose |-> FALSE, nviews |-> 0, depth |-> NoDepth, hits |-> h, hitPoseOk |-> ok] :
        ok \in Resolvable(h) }

PoseInputs(nv, h) ==
    { [pose |-> TRUE, nviews |-> nv, depth |-> d, hits |-> h, hitPoseOk |-> ok] :
        d \in DepthChoices(nv), ok \in Resolvable(h) }

FrameInputs ==
    UNION { NoPoseInputs(h) : h \in HitChoices }
    \cup UNION { PoseInputs(nv, h) : nv \in 1..MaxViews, h \in HitChoices }

NoFrameYet ==
    [pose |-> FALSE, nviews |-> 0, depth |-> NoDepth, hits |-> << >>, hitPoseOk |-> FALSE]

\* The context a callback starts from.
Context ==
    [gl |-> gl, un |-> uniforms, tex |-> depthTexData, calls |-> << >>,
     objs |-> objs, raf |-> session.rafPending - 1, frame |-> frameNo + 1,
     fail |-> NoFail, thrown |-> FALSE]

\* FrameStart with the pose retrieved before the next frame is requested.
FrameStartPoseFirst(c) ==
    Run(c, << I("getViewerPose", "unboundedRefSpace", 0, 0),
              I("requestAnimationFrame", "onDrawFrame", 0, 0) >>)

\* session.requestAnimationFrame(onDrawFrame); frame.getViewerPose(...)
FrameStart(c) ==
    Run(c, << I("requestAnimationFrame", "onDrawFrame", 0, 0),
              I("getViewerPose", "unboundedRefSpace", 0, 0) >>)

\* HitTestStep that takes the last result instead of the first.
HitTestStepLast(c, in) ==
    IF ~arHitTestSource THEN c
    ELSE LET queried == Emit(c, I("getHitTestResults", "arHitTestSource", Len(in.hits), 0))
         IN  IF Len(in.hits) > 0
                THEN LET posed == Emit(queried, I("getPose", "hitResults[0]", 0, 0))
                     IN  IF in.hitPoseOk
                            THEN Run(posed, << IV("setPosition", "reticleSceneObj",
                                                  in.hits[Len(in.hits)].pos),
                                               IV("setRotation", "reticleSceneObj",
                                                  in.hits[Len(in.hits)].rot) >>)
                            ELSE posed
                ELSE queried

\* HitTestStep that puts the reticle back at the origin when nothing is hit.
HitTestStepResetting(c, in) ==
    IF ~arHitTestSource THEN c
    ELSE LET queried == Emit(c, I("getHitTestResults", "arHitTestSource", Len(in.hits), 0))
         IN  IF Len(in.hits) > 0 /\ in.hitPoseOk
                THEN Run(queried, << I("getPose", "hitResults[0]", 0, 0),
                                     IV("setPosition", "reticleSceneObj", in.hits[1].pos),
                                     IV("setRotation", "reticleSceneObj", in.hits[1].rot) >>)
                ELSE Run(queried, << IV("setPosition", "reticleSceneObj", Origin),
                                     IV("setRotation", "reticleSceneObj", 0) >>)

\* "Check for hit results": the reticle takes the pose of hitResults[0].
HitTestStep(c, in) ==
    IF ~arHitTestSource THEN c
    ELSE LET queried == Emit(c, I("getHitTestResults", "arHitTestSource", Len(in.hits), 0))
         IN  IF Len(in.hits) > 0
                THEN LET posed == Emit(queried, I("getPose", "hitResults[0]", 0, 0))
                     IN  IF in.hitPoseOk
                            THEN Run(posed, << IV("setPosition", "reticleSceneObj", in.hits[1].pos),
                                               IV("setRotation", "reticleSceneObj", in.hits[1].rot) >>)
                            ELSE posed
                ELSE queried

\* ClearStep that clears before the layer's framebuffer is bound.
ClearStepBeforeBind(c) ==
    Run(c, << I("clearColor", "0,0,0,0", 0, 0),
              I("clear", "COLOR_BUFFER_BIT|DEPTH_BUFFER_BIT", 0, 0),
              I("bindFramebuffer", "glLayer.framebuffer", 0, 0),
              I("useProgram", ShaderOf(variant), 0, 0) >>)

\* "Do the Rendering": bind the layer's framebuffer, clear, use the shader.
ClearStep(c) ==
    Run(c, << I("bindFramebuffer", "glLayer.framebuffer", 0, 0),
              I("clearColor", "0,0,0,0", 0, 0),
              I("clear", "COLOR_BUFFER_BIT|DEPTH_BUFFER_BIT", 0, 0),
              I("useProgram", ShaderOf(variant), 0, 0) >>)

\* FrameEnd that leaves the shader program current.
FrameEndKeepsProgram(c) == Run(c, << I("bindFramebuffer", "null", 0, 0) >>)

\* gl.useProgram(null); gl.bindFramebuffer(gl.FRAMEBUFFER, null)
FrameEnd(c) ==
    Run(c, << I("useProgram", "null", 0, 0),
              I("bindFramebuffer", "null", 0, 0) >>)

\* if (depthInfo) { upload the snapshot on the given unit, write its uniforms }
DepthUpload(c, unit, view) ==
    Run(c, << I("activeTexture", "TEXTURE", unit, view),
              I("bindTexture", "depthTexture", 0, view),
              I("texImage2D", "depthInfo.data", 0, view),
              I("uniform", "depthTexture", unit, view),
              I("uniform", "depthUVTransform", 0, view),
              I("uniform", "depthScale", 0, view),
              I("uniform", "resolution", 0, view) >>)

\* renderer.useLights(scene, uniforms) and the projection and view matrices
CameraUniformWrites(c, view) ==
    Run(c, << I("uniform", "lights", 0, view),
              I("uniform", "projection", 0, view),
              I("uniform", "view", 0, view) >>)

ViewStart(c, view) == Emit(c, I("viewport", "glLayer.getViewport(view)", 0, view))

\* The per-view loop of the intro and hit-test programs.
RECURSIVE ViewLoopScene(_, _, _)
ViewLoopScene(c, i, in) ==
    IF i > in.nviews THEN c
    ELSE ViewLoopScene(
            SceneObjectLoop(CameraUniformWrites(ViewStart(c, i), i), 1, i),
            i + 1, in)

\* The per-view loop of the depth-sensing program: upload on unit 0 when a
\* snapshot is there, then draw the full-screen quad.
DepthTextureUnit == 0
RECURSIVE ViewLoopDepth(_, _, _)
ViewLoopDepth(c, i, in) ==
    IF i > in.nviews THEN c
    ELSE LET asked    == Emit(ViewStart(c, i), I("getDepthInformation", "view", 0, i))
             uploaded == IF in.depth[i] THEN DepthUpload(asked, DepthTextureUnit, i)
                                        ELSE asked
         IN  ViewLoopDepth(Emit(uploaded, I("drawArrays", "TRIANGLES", 6, i)), i + 1, in)

\* The occlusion program uploading depth on the unit of the object textures.
OcclusionUnitShared == DepthTextureUnit

\* The per-view loop of the occlusion program: upload on unit 1 when a
\* snapshot is there, then the camera uniforms and the scene objects.
OcclusionTextureUnit == 1
RECURSIVE ViewLoopOcclusion(_, _, _)
ViewLoopOcclusion(c, i, in) ==
    IF i > in.nviews THEN c
    ELSE LET asked    == Emit(ViewStart(c, i), I("getDepthInformation", "view", 0, i))
             uploaded == IF in.depth[i] THEN DepthUpload(asked, OcclusionTextureUnit, i)
                                        ELSE asked
         IN  ViewLoopOcclusion(
                SceneObjectLoop(CameraUniformWrites(uploaded, i), 1, i), i + 1, in)

\* onDrawFrame of each program, as a function from the context and the
\* host's inputs to the context the callback leaves behind.
onDrawFrameIntro(c, in) ==
    LET started == FrameStart(c)
    IN  IF in.pose THEN FrameEnd(ViewLoopScene(ClearStep(started), 1, in))
                   ELSE started

\* onDrawFrameHitTest with the hit test made after the scene is drawn.
onDrawFrameHitTestLate(c, in) ==
    LET started == FrameStart(c)
    IN  IF in.pose
            THEN FrameEnd(HitTestStep(ViewLoopScene(ClearStep(started), 1, in), in))
            ELSE started

\* onDrawFrameHitTest with the hit test made before the pose is looked at.
onDrawFrameHitTestUnguarded(c, in) ==
    LET started == HitTestStep(FrameStart(c), in)
    IN  IF in.pose THEN FrameEnd(ViewLoopScene(ClearStep(started), 1, in))
                   ELSE started

onDrawFrameHitTest(c, in) ==
    LET started == FrameStart(c)
    IN  IF in.pose
            THEN FrameEnd(ViewLoopScene(ClearStep(HitTestStep(started, in)), 1, in))
            ELSE started

onDrawFrameDepth(c, in) ==
    LET started == FrameStart(c)
    IN  IF in.pose THEN FrameEnd(ViewLoopDepth(ClearStep(started), 1, in))
                   ELSE started

onDrawFrameOcclusion(c, in) ==
    LET started == FrameStart(c)
    IN  IF in.pose
            THEN FrameEnd(ViewLoopOcclusion(ClearStep(HitTestStep(started, in)), 1, in))
            ELSE started

\* The host runs the pending frame callback: it is taken off the session's
\* callback list, run to completion, and its effects are stored.
Deliver(in, after) ==
    /\ gl' = after.gl
    /\ uniforms' = after.un
    /\ depthTexData' = after.tex
    /\ calls' = after.calls
    /\ objs' = after.objs
    /\ session' = [session EXCEPT !.rafPending = after.raf]
    /\ frameNo' = frameNo + 1
    /\ lastFrame' = in
    /\ tracker' = IF \E k \in 1..Len(after.calls) : after.calls[k].op = "setPosition"
                     THEN "Tracking" ELSE tracker
    /\ UNCHANGED <<frag, consoleErrors, variant, startPc, refSpaces, arHitTestSource, scene, pending, selects>>

FrameDue ==
    /\ session.state = "active"
    /\ session.rafPending > 0
    /\ frameNo < MaxFrames

OnDrawFrameIntro ==
    /\ variant = "intro" /\ FrameDue
    /\ \E in \in FrameInputs : Deliver(in, onDrawFrameIntro(Context, in))

OnDrawFrameHitTest ==
    /\ variant = "hittest" /\ FrameDue
    /\ \E in \in FrameInputs : Deliver(in, onDrawFrameHitTest(Context, in))

OnDrawFrameDepth ==
    /\ variant = "depth" /\ FrameDue
    /\ \E in \in FrameInputs : Deliver(in, onDrawFrameDepth(Context, in))

OnDrawFrameOcclusion ==
    /\ variant = "occlusion" /\ FrameDue
    /\ \E in \in FrameInputs : Deliver(in, onDrawFrameOcclusion(Context, in))

\* ------------------------------------------------------------------ select
\* onSelect up to its await: the reticle's position and rotation are read and
\* handed to createModelSceneObjectFromQuats, whose promise is then pending.
\* selects records what the reticle and the tracker were when the event came,
\* and whether the reticle had moved by the time the handler resumed.
MovedSince(sel) ==
    \/ objs[ReticleId].pos # selects[sel].pos
    \/ objs[ReticleId].rot # selects[sel].rot

\* OnSelectStart that puts the object into the scene as soon as it is asked
\* for, before its creation has finished and before it is rotated.
OnSelectStartAddsEarly ==
    /\ session.state = "active"
    /\ session.selectListener
    /\ Len(selects) < MaxSelects
    /\ selects' = Append(selects, [pos |-> objs[ReticleId].pos,
                                   rot |-> objs[ReticleId].rot,
                                   tracker |-> tracker,
                                   moved |-> FALSE])
    /\ pending' = pending \cup
            { createModelSceneObjectFromQuats(objs[ReticleId].pos, objs[ReticleId].rot,
                                              ScaleHalf, Len(selects) + 1) }
    /\ objs' = Append(objs, createModelSceneObjectFromQuats(
                    objs[ReticleId].pos, objs[ReticleId].rot, ScaleHalf, Len(selects) + 1))
    /\ scene' = Append(scene, Len(objs) + 1)
    /\ UNCHANGED <<frag, consoleErrors, variant, startPc, session, refSpaces, arHitTestSource,
                   gl, uniforms, depthTexData, calls, frameNo, lastFrame, tracker>>

OnSelectStart ==
    /\ session.state = "active"
    /\ session.selectListener
    /\ Len(selects) < MaxSelects
    /\ selects' = Append(selects, [pos |-> objs[ReticleId].pos,
                                   rot |-> objs[ReticleId].rot,
                                   tracker |-> tracker,
                                   moved |-> FALSE])
    /\ pending' = pending \cup
            { createModelSceneObjectFromQuats(objs[ReticleId].pos, objs[ReticleId].rot,
                                              ScaleHalf, Len(selects) + 1) }
    /\ UNCHANGED <<frag, consoleErrors, variant, startPc, session, refSpaces, arHitTestSource, objs, scene,
                   gl, uniforms, depthTexData, calls, frameNo, lastFrame, tracker>>

\* OnSelectResume as a move: the new object is added and the reticle goes
\* back to the origin.
OnSelectResumeMoving ==
    /\ \E p \in pending :
        /\ objs' = Append([objs EXCEPT ![ReticleId].pos = Origin, ![ReticleId].rot = 0],
                          rotate(p, -QuarterTurn))
        /\ scene' = Append(scene, Len(objs) + 1)
        /\ pending' = pending \ {p}
        /\ selects' = [selects EXCEPT ![p.sel].moved = MovedSince(p.sel)]
    /\ UNCHANGED <<frag, consoleErrors, variant, startPc, session, refSpaces, arHitTestSource,
                   gl, uniforms, depthTexData, calls, frameNo, lastFrame, tracker>>

\* OnSelectResume whose rotation turns every object placed so far as well.
OnSelectResumeTurnsPlaced ==
    /\ \E p \in pending :
        /\ objs' = Append([k \in 1..Len(objs) |->
                              IF objs[k].sel > 0 THEN rotate(objs[k], -QuarterTurn)
                                                 ELSE objs[k]],
                          rotate(p, -QuarterTurn))
        /\ scene' = Append(scene, Len(objs) + 1)
        /\ pending' = pending \ {p}
        /\ selects' = [selects EXCEPT ![p.sel].moved = MovedSince(p.sel)]
    /\ UNCHANGED <<frag, consoleErrors, variant, startPc, session, refSpaces, arHitTestSource,
                   gl, uniforms, depthTexData, calls, frameNo, lastFrame, tracker>>

\* OnSelectResume that reads the reticle only after the await.
OnSelectResumeLateRead ==
    /\ \E p \in pending :
        /\ objs' = Append(objs,
                rotate(createModelSceneObjectFromQuats(objs[ReticleId].pos,
                            objs[ReticleId].rot, ScaleHalf, p.sel), -QuarterTurn))
        /\ scene' = Append(scene, Len(objs) + 1)
        /\ pending' = pending \ {p}
        /\ selects' = [selects EXCEPT ![p.sel].moved = MovedSince(p.sel)]
    /\ UNCHANGED <<frag, consoleErrors, variant, startPc, session, refSpaces, arHitTestSource,
                   gl, uniforms, depthTexData, calls, frameNo, lastFrame, tracker>>

\* onSelect after its await: sceneObject.rotate(-90, 0, 0), then
\* renderer.addSceneObjectToScene(sceneObject).
OnSelectResume ==
    /\ \E p \in pending :
        /\ objs' = Append(objs, rotate(p, -QuarterTurn))
        /\ scene' = Append(scene, Len(objs) + 1)
        /\ pending' = pending \ {p}
        /\ selects' = [selects EXCEPT ![p.sel].moved = MovedSince(p.sel)]
    /\ UNCHANGED <<frag, consoleErrors, variant, startPc, session, refSpaces, arHitTestSource,
                   gl, uniforms, depthTexData, calls, frameNo, lastFrame, tracker>>

\* ----------------------------------------------------------------- session
NoSession ==
    [state |-> "none", endListener |-> FALSE, selectListener |-> FALSE,
     baseLayer |-> FALSE, hitTestApi |-> FALSE, rafPending |-> 0, endCalls |-> 0,
     endEvent |-> FALSE]

\* What isARSupported reports before it returns false: navigator.xr is
\* missing, or isSessionSupported("immersive-ar") resolved to false.
NotSupported(xr) == IF xr THEN "WebAR not supported" ELSE "WebXR not supported"

\* startARSession that reports missing support and goes on regardless.
StartARSessionUnchecked ==
    /\ startPc = "idle"
    /\ \E xr \in BOOLEAN, supported \in BOOLEAN :
          consoleErrors' = IF xr /\ supported THEN consoleErrors
                           ELSE consoleErrors \cup {NotSupported(xr)}
    /\ startPc' = "session"
    /\ UNCHANGED <<frag, variant, session, refSpaces, arHitTestSource, objs, scene,
                   pending, selects, gl, uniforms, depthTexData, calls, frameNo,
                   lastFrame, tracker>>

\* startARSession up to the await of requestSession: isARSupported() decides
\* whether anything is requested at all.
StartARSession ==
    /\ startPc = "idle"
    /\ \E xr \in BOOLEAN, supported \in BOOLEAN :
          IF xr /\ supported
             THEN startPc' = "session" /\ UNCHANGED consoleErrors
             ELSE /\ startPc' = "halted"
                  /\ consoleErrors' = consoleErrors \cup {NotSupported(xr)}
    /\ UNCHANGED <<frag, variant, session, refSpaces, arHitTestSource, objs, scene, pending,
                   selects, gl, uniforms, depthTexData, calls, frameNo, lastFrame,
                   tracker>>

\* requestSession resolves: the end listener is added and updateRenderState
\* is called.  Whether the session offers requestHitTestSource is the host's.
SessionGranted ==
    /\ startPc = "session"
    /\ \E api \in BOOLEAN :
          session' = [NoSession EXCEPT !.state = "active", !.endListener = TRUE,
                                       !.hitTestApi = api]
    /\ startPc' = "layer"
    /\ UNCHANGED <<frag, consoleErrors, variant, refSpaces, arHitTestSource, objs, scene, pending, selects,
                   gl, uniforms, depthTexData, calls, frameNo, lastFrame, tracker>>

\* updateRenderState resolves; the viewer reference space is requested.
LayerSet ==
    /\ startPc = "layer" /\ session.state = "active"
    /\ session' = [session EXCEPT !.baseLayer = TRUE]
    /\ startPc' = "refViewer"
    /\ UNCHANGED <<frag, consoleErrors, variant, refSpaces, arHitTestSource, objs, scene, pending, selects,
                   gl, uniforms, depthTexData, calls, frameNo, lastFrame, tracker>>

\* The programs that ask for a hit-test source after the reference spaces.
AsksHitTestSource == variant \in HitVariants /\ session.hitTestApi

\* RefSpaceGranted with the first animation frame requested as soon as the
\* local reference space is there, before the unbounded one is asked for.
RefSpaceGrantedEarlyFrame ==
    /\ session.state = "active"
    /\ \/ /\ startPc = "refViewer"
          /\ refSpaces' = [refSpaces EXCEPT !.viewer = TRUE]
          /\ startPc' = "refLocal"
          /\ UNCHANGED session
       \/ /\ startPc = "refLocal"
          /\ refSpaces' = [refSpaces EXCEPT !.local = TRUE]
          /\ startPc' = "refUnbounded"
          /\ session' = [session EXCEPT !.rafPending = @ + 1]
       \/ /\ startPc = "refUnbounded"
          /\ refSpaces' = [refSpaces EXCEPT !.unbounded = TRUE]
          /\ startPc' = IF AsksHitTestSource THEN "hitSource" ELSE "done"
          /\ UNCHANGED session
    /\ UNCHANGED <<frag, consoleErrors, variant, arHitTestSource, objs, scene, pending,
                   selects, gl, uniforms, depthTexData, calls, frameNo, lastFrame,
                   tracker>>

\* A requestReferenceSpace resolves: viewer, then local, then unbounded.  After
\* the last one the program either asks for the hit-test source or requests
\* the first animation frame.
RefSpaceGranted ==
    /\ session.state = "active"
    /\ \/ /\ startPc = "refViewer"
          /\ refSpaces' = [refSpaces EXCEPT !.viewer = TRUE]
          /\ startPc' = "refLocal"
          /\ UNCHANGED session
       \/ /\ startPc = "refLocal"
          /\ refSpaces' = [refSpaces EXCEPT !.local = TRUE]
          /\ startPc' = "refUnbounded"
          /\ UNCHANGED session
       \/ /\ startPc = "refUnbounded"
          /\ refSpaces' = [refSpaces EXCEPT !.unbounded = TRUE]
          /\ IF AsksHitTestSource
                THEN startPc' = "hitSource" /\ UNCHANGED session
                ELSE /\ startPc' = "done"
                     /\ session' = [session EXCEPT !.rafPending = @ + 1]
    /\ UNCHANGED <<frag, consoleErrors, variant, arHitTestSource, objs, scene, pending, selects, gl,
                   uniforms, depthTexData, calls, frameNo, lastFrame, tracker>>

\* requestHitTestSource resolves: the source is stored, the select listener is
\* added and the first animation frame is requested.
HitTestSourceGranted ==
    /\ startPc = "hitSource" /\ session.state = "active"
    /\ arHitTestSource' = TRUE
    /\ session' = [session EXCEPT !.selectListener = TRUE, !.rafPending = @ + 1]
    /\ startPc' = "done"
    /\ UNCHANGED <<frag, consoleErrors, variant, refSpaces, objs, scene, pending, selects, gl, uniforms,
                   depthTexData, calls, frameNo, lastFrame, tracker>>

\* The host ends the session (the user leaves AR, or the device takes the
\* session away): its pending callbacks are dropped and an end event is queued
\* for the listeners there are.
SessionEnded ==
    /\ session.state = "active"
    /\ session' = [session EXCEPT !.state = "ended", !.rafPending = 0,
                                  !.endEvent = session.endListener]
    /\ UNCHANGED <<frag, consoleErrors, variant, startPc, refSpaces, arHitTestSource, objs, scene, pending,
                   selects, gl, uniforms, depthTexData, calls, frameNo, lastFrame,
                   tracker>>

\* The end listener without the call of shutDownARSession.
OnSessionEndSilent ==
    /\ session.endEvent
    /\ session' = [session EXCEPT !.endEvent = FALSE]
    /\ UNCHANGED <<frag, consoleErrors, variant, startPc, refSpaces, arHitTestSource,
                   objs, scene, pending, selects, gl, uniforms, depthTexData, calls,
                   frameNo, lastFrame, tracker>>

\* The end listener runs: shutDownARSession(ARSession) calls session.end().
OnSessionEnd ==
    /\ session.endEvent
    /\ session' = [session EXCEPT !.endEvent = FALSE, !.endCalls = @ + 1]
    /\ UNCHANGED <<frag, consoleErrors, variant, startPc, refSpaces, arHitTestSource,
                   objs, scene, pending, selects, gl, uniforms, depthTexData, calls,
                   frameNo, lastFrame, tracker>>

\* ------------------------------------------------------------ specification
\* The page after main(): nothing started, the renderer set up.
Loaded ==
    /\ startPc = "idle"
    /\ session = NoSession
    /\ refSpaces = [viewer |-> FALSE, local |-> FALSE, unbounded |-> FALSE]
    /\ arHitTestSource = FALSE
    /\ objs = InitialObjects(variant)
    /\ scene = [k \in 1..Len(InitialObjects(variant)) |-> k]
    /\ pending = {}
    /\ selects = << >>
    /\ gl = InitialGL
    /\ uniforms = InitialUniforms
    /\ depthTexData = NoStamp
    /\ calls = << >>
    /\ frameNo = 0
    /\ lastFrame = NoFrameYet
    /\ tracker = "NoSurface"
    /\ consoleErrors = {}

Init ==
    /\ variant \in Variants
    /\ Loaded
    /\ frag = NoFragment

Next ==
    \/ StartARSession
    \/ SessionGranted
    \/ LayerSet
    \/ RefSpaceGranted
    \/ HitTestSourceGranted
    \/ SessionEnded
    \/ OnSessionEnd
    \/ OnDrawFrameIntro
    \/ OnDrawFrameHitTest
    \/ OnDrawFrameDepth
    \/ OnDrawFrameOcclusion
    \/ OnSelectStart
    \/ OnSelectResume

Spec == Init /\ [][Next]_vars

\* ------------------------------------------------ callbacks that throw
\* The calls of onDrawFrame into the host or the framework that can throw: the
\* pose and hit-test queries, the viewport lookup (getViewport may return
\* undefined, and viewport.x then throws), the depth query, the depth upload
\* and the draw calls.
FailPoints ==
    {[op |-> o, view |-> 0] : o \in {"getViewerPose", "getHitTestResults", "getPose"}}
    \cup {[op |-> o, view |-> v] :
            o \in {"viewport", "getDepthInformation", "texImage2D",
                   "drawArrays", "drawElements"},
            v \in 1..MaxViews}

FailingContext(f) == [Context EXCEPT !.fail = f]

onDrawFrame(c, in) ==
    CASE variant = "intro"     -> onDrawFrameIntro(c, in)
      [] variant = "hittest"   -> onDrawFrameHitTest(c, in)
      [] variant = "depth"     -> onDrawFrameDepth(c, in)
      [] variant = "occlusion" -> onDrawFrameOcclusion(c, in)

\* The host runs the pending frame callback and one of its calls throws: the
\* callback ends there, what it did before stays done, and the host goes on
\* with the session.
OnDrawFrameThrows ==
    /\ FrameDue
    /\ \E in \in FrameInputs, f \in FailPoints :
          LET after == onDrawFrame(FailingContext(f), in)
          IN  after.thrown /\ Deliver(in, after)

\* The steps that touch the session's callback list: startup, the end of the
\* session and the frame callbacks.  The select handlers never do.
NextCadence ==
    \/ StartARSession
    \/ SessionGranted
    \/ LayerSet
    \/ RefSpaceGranted
    \/ HitTestSourceGranted
    \/ SessionEnded
    \/ OnSessionEnd
    \/ OnDrawFrameIntro
    \/ OnDrawFrameHitTest
    \/ OnDrawFrameDepth
    \/ OnDrawFrameOcclusion
    \/ OnDrawFrameThrows

SpecCadence == Init /\ [][NextCadence]_vars

\* ------------------------------------------------- fragment shader (depth)
\* Shader floats are modelled as exact fractions [n, d] in lowest terms with
\* d > 0; rounding of the GPU's floating point is not modelled.
RECURSIVE Gcd(_, _)
Gcd(a, b) == IF b = 0 THEN a ELSE Gcd(b, a % b)
Abs(a) == IF a < 0 THEN -a ELSE a
Q(n, d) ==
    LET g == Gcd(Abs(n), Abs(d))
        sgn == IF d < 0 THEN -1 ELSE 1
    IN  [n |-> sgn * (n \div g), d |-> sgn * (d \div g)]
QAdd(a, b) == Q(a.n * b.d + b.n * a.d, a.d * b.d)
QSub(a, b) == Q(a.n * b.d - b.n * a.d, a.d * b.d)
QMul(a, b) == Q(a.n * b.n, a.d * b.d)
QDiv(a, b) == Q(a.n * b.d, a.d * b.n)
QLe(a, b)  == a.n * b.d <= b.n * a.d
QLt(a, b)  == a.n * b.d < b.n * a.d
Zero == Q(0, 1)
One  == Q(1, 1)

\* texture(depth_texture, uv) on a LUMINANCE_ALPHA / UNSIGNED_BYTE texture:
\* the first byte of the texel is the luminance, returned in r, g and b, the
\* second is the alpha, each normalised from 0..ByteMax to [0, 1].
ByteMax == 255
texture(low, high) ==
    [r |-> Q(low, ByteMax), g |-> Q(low, ByteMax), b |-> Q(low, ByteMax),
     a |-> Q(high, ByteMax)]

dot(v, w) == QAdd(QMul(v[1], w[1]), QMul(v[2], w[2]))

\* depthGetMeters reading the two channels the other way round (.ar).
depthGetMetersSwapped(low, high, depthScale) ==
    LET packedDepthAndVisibility == <<texture(low, high).a, texture(low, high).r>>
    IN  QMul(dot(packedDepthAndVisibility, <<Q(255, 1), Q(256 * 255, 1)>>), depthScale)

\* depthGetMeters: the texel read at depth_uv holds the bytes (low, high).
depthGetMeters(low, high, depthScale) ==
    LET packedDepthAndVisibility == <<texture(low, high).r, texture(low, high).a>>
    IN  QMul(dot(packedDepthAndVisibility, <<Q(255, 1), Q(256 * 255, 1)>>), depthScale)

\* normalizeFragCoords without the flip of the vertical axis.
normalizeFragCoordsUnflipped(fragCoords, resolution) ==
    <<QDiv(fragCoords[1], resolution[1]), QDiv(fragCoords[2], resolution[2])>>

normalizeFragCoords(fragCoords, resolution) ==
    <<QDiv(fragCoords[1], resolution[1]),
      QSub(One, QDiv(fragCoords[2], resolution[2]))>>

mapRange(inputValue, inputMin, inputMax, outputMin, outputMax) ==
    QAdd(outputMin,
         QDiv(QMul(QSub(inputValue, inputMin), QSub(outputMax, outputMin)),
              QSub(inputMax, inputMin)))

clamp(x, minVal, maxVal) ==
    LET lower == IF QLt(x, minVal) THEN minVal ELSE x
    IN  IF QLt(maxVal, lower) THEN maxVal ELSE lower

kMaxDepth == 8

\* The mapping of main without the clamp.
mappedValueUnclamped(depth) ==
    mapRange(depth, Zero, Q(kMaxDepth, 1), Zero, One)

\* main: mappedValue = mapRange(clamp(depth, 0.0, kMaxDepth), 0.0, kMaxDepth, 0.0, 1.0)
mappedValue(depth) ==
    mapRange(clamp(depth, Zero, Q(kMaxDepth, 1)), Zero, Q(kMaxDepth, 1), Zero, One)

\* Inputs of the shader functions.  Scales (depthInfo.rawValueToMeters) are in
\* thousandths, fragment coordinates in half pixels, depths in quarter metres.
MaxScale == 2
MaxRes == 3
MaxQuarters == 40
Scales == {Q(k, 1000) : k \in 0..MaxScale}
MainFragments ==
    {[fn |-> "main", low |-> l, high |-> h, scale |-> sc, done |-> FALSE,
      meters |-> Zero, gray |-> Zero] : l \in 0..ByteMax, h \in 0..ByteMax, sc \in Scales}
CoordsOf(w, h) ==
    {[fn |-> "coords", xy |-> <<Q(x, 2), Q(y, 2)>>, res |-> <<Q(w, 1), Q(h, 1)>>,
      done |-> FALSE, uv |-> <<Zero, Zero>>] : x \in 0..(2 * w), y \in 0..(2 * h)}
CoordsFragments == UNION {CoordsOf(w, h) : w \in 1..MaxRes, h \in 1..MaxRes}
MapFragments ==
    {[fn |-> "map", depth |-> Q(k, 4), done |-> FALSE, gray |-> Zero] :
        k \in (-MaxQuarters)..MaxQuarters}

ShaderInit ==
    /\ variant = "depth"
    /\ Loaded
    /\ frag \in MainFragments \cup CoordsFragments \cup MapFragments

Unshaded == <<variant, startPc, session, refSpaces, arHitTestSource, objs, scene,
              pending, selects, gl, uniforms, depthTexData, calls, frameNo,
              lastFrame, tracker, consoleErrors>>

\* main for one fragment whose texel holds (low, high).
ShadeFragment ==
    /\ frag.fn = "main" /\ ~frag.done
    /\ LET depth == depthGetMeters(frag.low, frag.high, frag.scale)
       IN  frag' = [frag EXCEPT !.done = TRUE, !.meters = depth,
                                !.gray = mappedValue(depth)]
    /\ UNCHANGED Unshaded

NormalizeFragment ==
    /\ frag.fn = "coords" /\ ~frag.done
    /\ frag' = [frag EXCEPT !.done = TRUE, !.uv = normalizeFragCoords(frag.xy, frag.res)]
    /\ UNCHANGED Unshaded

MapDepth ==
    /\ frag.fn = "map" /\ ~frag.done
    /\ frag' = [frag EXCEPT !.done = TRUE, !.gray = mappedValue(frag.depth)]
    /\ UNCHANGED Unshaded

ShaderNext == ShadeFragment \/ NormalizeFragment \/ MapDepth

SpecShader == ShaderInit /\ [][ShaderNext]_vars

\* ===================================================================== claims
\* Helpers over the log of the latest frame callback.
Ops(log) == {log[k].op : k \in 1..Len(log)}
Count(log, op) == Cardinality({k \in 1..Len(log) : log[k].op = op})
FrameStep == frameNo' = frameNo + 1
GLOps == {"bindFramebuffer", "clearColor", "clear", "useProgram", "viewport",
          "activeTexture", "bindTexture", "texImage2D", "uniform",
          "drawArrays", "drawElements"}
ReticleOps == {"setPosition", "setRotation"}

\* C1: in every frame callback of every program the request for the next
\* animation frame is the first call: it precedes the retrieval of the viewer
\* pose, every GL call and every change of the reticle.
C1_RearmFirst ==
    frameNo > 0 =>
        /\ Len(calls) >= 2
        /\ calls[1].op = "requestAnimationFrame"
        /\ \A k \in 1..Len(calls) :
              calls[k].op \in GLOps \cup ReticleOps \cup {"getViewerPose"} => k > 1

\* A rendered occlusion frame that moved the reticle and drew.
C1_Witness ==
    /\ variant = "occlusion" /\ frameNo > 0 /\ lastFrame.pose
    /\ "setPosition" \in Ops(calls) /\ "drawElements" \in Ops(calls)

\* C2: a frame callback that gets no viewer pose binds, clears, uploads,
\* writes and draws nothing and leaves the reticle where it was, even when
\* hit-test results are there; all it does is request the next frame.
C2_NoPoseNoEffect ==
    [][ (FrameStep /\ ~lastFrame'.pose) =>
            /\ gl' = gl /\ uniforms' = uniforms /\ depthTexData' = depthTexData
            /\ objs' = objs /\ scene' = scene /\ tracker' = tracker
            /\ Ops(calls') \cap (GLOps \cup ReticleOps) = {}
            /\ Count(calls', "requestAnimationFrame") = 1
            /\ session'.rafPending = session.rafPending ]_vars

\* A frame without a pose while the host had a resolvable hit-test result.
C2_Witness ==
    /\ frameNo > 0 /\ ~lastFrame.pose
    /\ lastFrame.hits # << >> /\ lastFrame.hitPoseOk
    /\ session.rafPending = 1

\* C3: a frame whose hit-test query returns no result leaves the reticle's
\* position and orientation as they were, so the reticle keeps its last
\* known pose over any run of such frames.
C3_NoHitKeepsPose ==
    [][ (FrameStep /\ variant \in HitVariants /\ lastFrame'.hits = << >>) =>
            /\ objs'[ReticleId].pos = objs[ReticleId].pos
            /\ objs'[ReticleId].rot = objs[ReticleId].rot ]_vars

\* A rendered frame that queried, got nothing, and left a tracked reticle away
\* from the origin.
C3_Witness ==
    /\ variant \in HitVariants /\ frameNo > 1 /\ lastFrame.pose
    /\ "getHitTestResults" \in Ops(calls) /\ lastFrame.hits = << >>
    /\ tracker = "Tracking" /\ objs[ReticleId].pos # Origin

\* Objects placed by a select event, and the event each came from.
Placed == {k \in 1..Len(objs) : objs[k].sel > 0}
SelectOf(k) == selects[objs[k].sel]
HitQueried(log) == \E k \in 1..Len(log) : log[k].op = "getHitTestResults" /\ log[k].n > 0
ReticleAt(o, pose) == o[ReticleId].pos = pose.pos /\ o[ReticleId].rot = pose.rot

\* C4 as stated: in every frame whose hit-test query returns a result the
\* reticle is set exactly once, to the first result's position and orientation.
C4_AnyHitUpdates ==
    [][ (FrameStep /\ HitQueried(calls')) =>
            /\ ReticleAt(objs', lastFrame'.hits[1])
            /\ Count(calls', "setPosition") = 1
            /\ Count(calls', "setRotation") = 1 ]_vars

\* C4, amended: in every frame whose hit-test query returns a result, the
\* reticle is set exactly once, to the first result's position and
\* orientation, when that result's pose resolves in the unbounded reference
\* space; when it does not resolve the reticle is left as it was.
C4_FirstResolvedHitUpdates ==
    [][ (FrameStep /\ HitQueried(calls')) =>
            IF lastFrame'.hitPoseOk
                THEN /\ ReticleAt(objs', lastFrame'.hits[1])
                     /\ Count(calls', "setPosition") = 1
                     /\ Count(calls', "setRotation") = 1
                ELSE /\ objs'[ReticleId] = objs[ReticleId]
                     /\ Ops(calls') \cap ReticleOps = {} ]_vars

\* A frame with two results, the first resolved and unlike the second, that
\* moved the reticle.
C4_Witness ==
    /\ frameNo > 0 /\ HitQueried(calls) /\ lastFrame.hitPoseOk
    /\ Len(lastFrame.hits) > 1 /\ lastFrame.hits[1] # lastFrame.hits[2]
    /\ ReticleAt(objs, lastFrame.hits[1])

\* C5: no object is placed by a select event that came while the tracker was
\* still in NoSurface.
C5_NoPlacementBeforeHit ==
    \A k \in Placed : SelectOf(k).tracker = "Tracking"

\* C6: a select event adds one new object, distinct from those in the scene,
\* built from the reticle's position and rotation, and changes neither the
\* reticle nor the tracker nor any object already there; objects placed from
\* the same reticle pose have the same pose.
C6_SelectStep ==
    \/ Len(selects') = Len(selects) + 1
    \/ Len(objs') = Len(objs) + 1

C6_PlacementIsCopy ==
    /\ [][ C6_SelectStep =>
            /\ tracker' = tracker
            /\ \A k \in 1..Len(objs) : objs'[k] = objs[k]
            /\ \A k \in 1..Len(scene) : scene'[k] = scene[k]
            /\ Len(selects') = Len(selects) + 1 =>
                  \E p \in pending' \ pending :
                      p.pos = objs[ReticleId].pos /\ p.rot = objs[ReticleId].rot
            /\ Len(objs') = Len(objs) + 1 =>
                  /\ Len(scene') = Len(scene) + 1
                  /\ scene'[Len(scene')] = Len(objs')
                  /\ scene'[Len(scene')] \notin {scene[k] : k \in 1..Len(scene)}
                  /\ objs'[Len(objs')].scale = ScaleHalf ]_vars
    /\ [](\A j, k \in Placed :
            (SelectOf(j).pos = SelectOf(k).pos /\ SelectOf(j).rot = SelectOf(k).rot)
                => (objs[j].pos = objs[k].pos /\ objs[j].rot = objs[k].rot))

\* Two objects placed by two select events that saw the same tracked reticle
\* pose, the reticle still being there.
C6_Witness ==
    \E j, k \in Placed :
        /\ j # k /\ objs[j].sel # objs[k].sel
        /\ objs[j].pos = objs[k].pos /\ objs[j].rot = objs[k].rot
        /\ tracker = "Tracking"
        /\ objs[ReticleId].pos = objs[j].pos
        /\ Cardinality({scene[i] : i \in 1..Len(scene)}) = 3

\* C7 as stated: a placed object has the position and the rotation the
\* reticle had when its select handler started.
C7_ObjectHasReticlePose ==
    \A k \in Placed :
        objs[k].pos = SelectOf(k).pos /\ objs[k].rot = SelectOf(k).rot

\* C7, amended: a placed object has the position the reticle had when its
\* select handler started and that moment's rotation turned by -90 degrees
\* about X, whatever frame callbacks ran while its creation was pending.
C7_ObjectFromPoseAtSelect ==
    \A k \in Placed :
        /\ objs[k].pos = SelectOf(k).pos
        /\ objs[k].rot = (SelectOf(k).rot + FullTurn - QuarterTurn) % FullTurn

\* An object whose creation was pending while a frame callback moved the
\* reticle away from the pose the select handler read.
C7_Witness ==
    \E k \in Placed :
        /\ SelectOf(k).moved
        /\ SelectOf(k).tracker = "Tracking"
        /\ ~ReticleAt(objs, SelectOf(k))

\* The draw calls of a log, and the writes a draw call of a program consumes.
Draws(log) == {k \in 1..Len(log) : log[k].op \in DrawOps}
WrittenBefore(log, k, u) ==
    \E j \in 1..(k - 1) :
        log[j].op = "uniform" /\ log[j].arg = u /\ log[j].view = log[k].view
UploadedBefore(log, k) ==
    \E j \in 1..(k - 1) : log[j].op = "texImage2D" /\ log[j].view = log[k].view

\* C8: no draw call samples depth data uploaded in an earlier frame.
C8_NoStaleDepth ==
    \A k \in Draws(calls) : calls[k].data.frame \in {0, frameNo}

\* C9: in every rendered frame, every draw call of a view comes after that
\* frame's writes for that view of everything the program's shader reads:
\* the depth upload and the depth uniforms in the programs with a depth
\* texture, the light, projection and view uniforms in the programs with a
\* scene.
C9_WritesBeforeDraw ==
    \A k \in Draws(calls) :
        /\ variant \in DepthVariants =>
              /\ UploadedBefore(calls, k)
              /\ \A u \in DepthUniforms : WrittenBefore(calls, k, u)
        /\ variant \in SceneVariants =>
              \A u \in CameraUniforms : WrittenBefore(calls, k, u)

\* C10: after every frame callback that had a pose, no shader program is
\* current and no framebuffer is bound.
C10_ProgramAndFramebufferReset ==
    (frameNo > 0 /\ lastFrame.pose) =>
        gl.program = "null" /\ gl.framebuffer = "null"

\* A rendered occlusion frame with two views, a depth snapshot and three
\* scene objects drawn.
C10_Witness ==
    /\ variant = "occlusion" /\ frameNo > 0 /\ lastFrame.pose
    /\ lastFrame.nviews = 2 /\ lastFrame.depth[1] /\ ~lastFrame.depth[2]
    /\ Len(scene) = 3 /\ Count(calls, "drawElements") = 6
    /\ "useProgram" \in Ops(calls)

\* C11: between two frame callbacks of a program with a depth texture every
\* binding is back to its default: no framebuffer bound, no program current,
\* no texture bound to TEXTURE_2D on any texture unit, and texture unit 0
\* active.
C11_AllBindingsReset ==
    (variant \in DepthVariants /\ frameNo > 0) => gl = InitialGL

\* The calls of the log that bind the layer's framebuffer, set the clear
\* colour to transparent black, and clear colour and depth together.
BindsLayer(log) ==
    {k \in 1..Len(log) : log[k].op = "bindFramebuffer"
                         /\ log[k].arg = "glLayer.framebuffer"}
SetsClearColor(log) ==
    {k \in 1..Len(log) : log[k].op = "clearColor" /\ log[k].arg = "0,0,0,0"}
Clears(log) ==
    {k \in 1..Len(log) : log[k].op = "clear"
                         /\ log[k].arg = "COLOR_BUFFER_BIT|DEPTH_BUFFER_BIT"}

\* C12: in every frame callback that had a pose the layer's framebuffer is
\* bound, then the clear colour is set to (0, 0, 0, 0), then colour and depth
\* are cleared together, with the framebuffer still bound, and every draw
\* call of the frame comes after that clear.
C12_ClearBeforeDraw ==
    (frameNo > 0 /\ lastFrame.pose) =>
        \E b \in BindsLayer(calls), cc \in SetsClearColor(calls),
           cl \in Clears(calls) :
            /\ b < cc /\ cc < cl
            /\ \A j \in (b + 1)..cl : calls[j].op # "bindFramebuffer"
            /\ \A k \in Draws(calls) : cl < k

\* A rendered depth frame with two views, hence two draw calls after one
\* clear.
C12_Witness ==
    /\ variant = "depth" /\ frameNo > 0 /\ lastFrame.pose
    /\ lastFrame.nviews = 2
    /\ Count(calls, "clear") = 1 /\ Count(calls, "drawArrays") = 2

\* The texture unit that is active when call k of the log is made, as far as
\* the log tells: the unit of the last activeTexture before it (-1: none).
UnitAt(log, k) ==
    LET js == {j \in 1..(k - 1) : log[j].op = "activeTexture"}
    IN  IF js = {} THEN -1
        ELSE log[CHOOSE j \in js : \A m \in js : m <= j].n
TextureBinds(log, t) ==
    {k \in 1..Len(log) : log[k].op = "bindTexture" /\ log[k].arg = t}
SamplerWrites(log, u) ==
    {k \in 1..Len(log) : log[k].op = "uniform" /\ log[k].arg = u}

\* C13: the depth texture and the scene objects' textures never share a
\* texture unit: the depth texture is bound on, and the depth sampler names,
\* a unit other than the one the object textures are bound on and the object
\* sampler names, and every draw call of a view whose depth snapshot was
\* uploaded still samples that snapshot, after any number of objects drawn.
C13_UnitsDoNotCollide ==
    /\ \A k \in TextureBinds(calls, "depthTexture"),
          j \in TextureBinds(calls, "objectTexture") :
            UnitAt(calls, k) # UnitAt(calls, j)
    /\ \A k \in SamplerWrites(calls, "depthTexture"),
          j \in SamplerWrites(calls, "texture") : calls[k].n # calls[j].n
    /\ \A k \in Draws(calls) :
          lastFrame.depth[calls[k].view] =>
              calls[k].data = [frame |-> frameNo, view |-> calls[k].view]

\* An occlusion frame whose first view has a depth snapshot and in which
\* three objects are drawn after the upload, the last of them still sampling
\* the snapshot.
C13_Witness ==
    /\ variant = "occlusion" /\ frameNo > 0 /\ lastFrame.pose
    /\ lastFrame.depth[1] /\ Len(scene) = 3
    /\ TextureBinds(calls, "depthTexture") # {}
    /\ \E k \in Draws(calls) :
          /\ calls[k].view = 1 /\ calls[k].n = scene[3]
          /\ calls[k].data = [frame |-> frameNo, view |-> 1]
    /\ gl.texture2D[OcclusionTextureUnit] = "depthTexture"
    /\ gl.texture2D[0] = "objectTexture"

\* C14: once startup has requested the first animation frame and while the
\* session is active, exactly one frame callback is pending between any two
\* steps, whether the callbacks delivered so far rendered, skipped rendering
\* or threw part-way.
C14_OnePendingCallback ==
    (session.state = "active" /\ startPc = "done") => session.rafPending = 1

\* Two callbacks delivered, the second of which threw in its view loop, after
\* the clear and before the framebuffer was unbound; one callback is pending.
C14_Witness ==
    /\ session.state = "active" /\ startPc = "done"
    /\ frameNo = 2 /\ lastFrame.pose
    /\ "clear" \in Ops(calls) /\ gl.framebuffer = "glLayer.framebuffer"
    /\ calls[1].op = "requestAnimationFrame"
    /\ session.rafPending = 1

\* C15: when navigator.xr is missing or immersive-ar is not supported,
\* startARSession reports it and stops there: no session is requested, no
\* listener is registered, no reference space and no hit-test source is
\* requested, and no frame callback is ever requested or run.
C15_UnsupportedHaltsCleanly ==
    /\ (startPc = "halted") <=> (consoleErrors # {})
    /\ consoleErrors \subseteq {NotSupported(TRUE), NotSupported(FALSE)}
    /\ consoleErrors # {} =>
          /\ session = NoSession
          /\ refSpaces = [viewer |-> FALSE, local |-> FALSE, unbounded |-> FALSE]
          /\ ~arHitTestSource
          /\ frameNo = 0 /\ calls = << >>
          /\ pending = {} /\ selects = << >>
          /\ gl = InitialGL

\* The occlusion program on a browser with navigator.xr whose
\* isSessionSupported("immersive-ar") resolved to false.
C15_Witness ==
    /\ variant = "occlusion"
    /\ startPc = "halted"
    /\ consoleErrors = {"WebAR not supported"}

\* C16: in the programs with a reticle, when the session offers no hit-test
\* source, startup halts: no frame callback is ever requested or run and no
\* select listener is registered.
C16_NoHitTestSourceHalts ==
    (variant \in HitVariants /\ session.state # "none" /\ ~session.hitTestApi) =>
        /\ session.rafPending = 0 /\ frameNo = 0
        /\ ~session.selectListener

\* C17 as stated: whenever the session has ended, session.end() has been
\* invoked for it and no frame callback is pending.
C17_EndedMeansEndInvoked ==
    session.state = "ended" => (session.endCalls >= 1 /\ session.rafPending = 0)

\* C17: session.end() is invoked by the end listener, that is, only after the
\* host has ended the session: an ended session either still has its end event
\* queued for the listener or has had session.end() invoked exactly once, and
\* end() is never invoked on an active session.  From the moment the session
\* has ended no frame callback is pending or run, and no step clears,
\* uploads, draws, writes a uniform or moves the reticle.
C17_EndStopsLoop ==
    [][ /\ session'.state = "ended" =>
              /\ session'.rafPending = 0
              /\ session'.endCalls = (IF session'.endEvent THEN 0 ELSE 1)
        /\ session'.state = "active" => session'.endCalls = 0
        /\ session.state = "ended" =>
              /\ session'.state = "ended"
              /\ UNCHANGED <<gl, uniforms, depthTexData, calls, frameNo, lastFrame>>
              /\ variant \in HitVariants => objs'[ReticleId] = objs[ReticleId]
      ]_vars

\* A session that ended after two frame callbacks, the second one rendered,
\* and whose end listener has run.
C17_Witness ==
    /\ session.state = "ended" /\ ~session.endEvent /\ session.endCalls = 1
    /\ frameNo = 2 /\ lastFrame.pose /\ Count(calls, "clear") = 1
    /\ session.rafPending = 0

\* The 16-bit value of a byte pair, and the shaded fragments.
Combined(low, high) == low + 256 * high
Shaded(fn) == frag.fn = fn /\ frag.done

\* C18: for every byte pair (low, high) and every scale, depthGetMeters
\* returns (low + 256 * high) * scale: 0 for (0, 0), 255 * scale for (255, 0);
\* and for a positive scale the next 16-bit value decodes to a strictly
\* larger depth, so that the result is strictly monotonic in low + 256 * high.
C18_DepthDecode ==
    Shaded("main") =>
        LET v == Combined(frag.low, frag.high)
        IN  /\ frag.meters = QMul(Q(v, 1), frag.scale)
            /\ (frag.low = 0 /\ frag.high = 0) => frag.meters = Zero
            /\ (frag.low = ByteMax /\ frag.high = 0) =>
                   frag.meters = QMul(Q(255, 1), frag.scale)
            /\ (QLt(Zero, frag.scale) /\ v < Combined(ByteMax, ByteMax)) =>
                   QLt(frag.meters,
                       depthGetMeters((v + 1) % 256, (v + 1) \div 256, frag.scale))

\* The texel (0, 1), whose 16-bit value is 256, decoded with scale 2/1000.
C18_Witness ==
    /\ Shaded("main")
    /\ frag.low = 0 /\ frag.high = 1 /\ frag.scale = Q(2, 1000)
    /\ frag.meters = Q(512, 1000)

\* C19: normalizeFragCoords maps (x, y) with resolution (width, height) to
\* (x / width, 1 - y / height): (0, 0) to (0, 1), (width, 0) to (1, 1),
\* (0, height) to (0, 0), and for 0 <= x <= width, 0 <= y <= height both
\* coordinates of the result lie in [0, 1].
C19_CoordinateTransform ==
    Shaded("coords") =>
        LET x == frag.xy[1]    y == frag.xy[2]
            width == frag.res[1]    height == frag.res[2]
            u == frag.uv[1]    v == frag.uv[2]
        IN  /\ QMul(u, width) = x
            /\ QMul(QSub(One, v), height) = y
            /\ (x = Zero /\ y = Zero) => (u = Zero /\ v = One)
            /\ (x = width /\ y = Zero) => (u = One /\ v = One)
            /\ (x = Zero /\ y = height) => (u = Zero /\ v = Zero)
            /\ (QLe(Zero, x) /\ QLe(x, width) /\ QLe(Zero, y) /\ QLe(y, height)) =>
                  /\ QLe(Zero, u) /\ QLe(u, One)
                  /\ QLe(Zero, v) /\ QLe(v, One)

\* The centre of the top-left pixel of a 3 x 2 viewport: fragment (0.5, 1.5)
\* maps to (1/6, 1/4).
C19_Witness ==
    /\ Shaded("coords")
    /\ frag.res = <<Q(3, 1), Q(2, 1)>> /\ frag.xy = <<Q(1, 2), Q(3, 2)>>
    /\ frag.uv = <<Q(1, 6), Q(1, 4)>>

\* C20: the intensity main writes is clamp(depth, 0, 8) / 8: 1 for every
\* depth above 8 m, 0 for every depth below 0 m, depth / 8 and strictly
\* increasing in between; a fragment whose texel decodes to 2 m gets 1/4.
C20_DepthToGray ==
    /\ Shaded("map") =>
          LET d == frag.depth
              far == Q(kMaxDepth, 1)
              step == Q(1, 4)
          IN  /\ QLt(far, d) => frag.gray = One
              /\ QLt(d, Zero) => frag.gray = Zero
              /\ (QLe(Zero, d) /\ QLe(d, far)) =>
                    /\ QMul(frag.gray, Q(8, 1)) = d
                    /\ QLe(QAdd(d, step), far) =>
                          QLt(frag.gray, mappedValue(QAdd(d, step)))
    /\ Shaded("main") =>
          /\ frag.gray = QDiv(clamp(frag.meters, Zero, Q(8, 1)), Q(8, 1))
          /\ frag.meters = Q(2, 1) => frag.gray = Q(1, 4)

\* The texel (208, 7), 2000 raw units, at one millimetre per unit: 2 m,
\* shaded with intensity 1/4.
C20_Witness ==
    /\ Shaded("main")
    /\ frag.low = 208 /\ frag.high = 7 /\ frag.scale = Q(1, 1000)
    /\ frag.meters = Q(2, 1) /\ frag.gray = Q(1, 4)

\* The calls of the log that move the reticle, those that draw it, and the
\* first call of the rendering part of the callback.
ReticleWrites(log) == {k \in 1..Len(log) : log[k].op \in ReticleOps}
ReticleDraws(log) ==
    {k \in 1..Len(log) : log[k].op = "drawElements" /\ log[k].n = ReticleId}
PoseOf(o) == [pos |-> o.pos, rot |-> o.rot]

\* C21: in a frame callback with a pose of a program with a reticle, every
\* change of the reticle comes before the framebuffer is bound and before
\* every draw call; the reticle is drawn, in every view, with the pose it has
\* at the end of the callback, and when the first hit result of the frame
\* resolves to a pose, that is the pose it is drawn with.
C21_HitAppliedBeforeDraw ==
    (variant \in HitVariants /\ frameNo > 0 /\ lastFrame.pose) =>
        /\ \A k \in ReticleWrites(calls) :
              /\ \A b \in BindsLayer(calls) : k < b
              /\ \A d \in Draws(calls) : k < d
        /\ \A d \in ReticleDraws(calls) :
              /\ calls[d].obj = objs[ReticleId]
              /\ HitQueried(calls) /\ lastFrame.hitPoseOk =>
                    PoseOf(calls[d].obj) = lastFrame.hits[1]

\* A second frame of the hit-test program with two views whose first hit
\* result resolves to a turned pose: the reticle is drawn in both views with
\* that pose.
C21_Witness ==
    /\ variant = "hittest" /\ frameNo = 2 /\ lastFrame.pose
    /\ lastFrame.nviews = 2 /\ lastFrame.hitPoseOk /\ HitQueried(calls)
    /\ lastFrame.hits[1].rot = QuarterTurn
    /\ Cardinality(ReticleDraws(calls)) = 2
    /\ \A d \in ReticleDraws(calls) : PoseOf(calls[d].obj) = lastFrame.hits[1]
    /\ tracker = "Tracking"

\* The reticle is written inside the hit-test step of a callback: every write
\* follows the getPose of the first hit result with only reticle writes in
\* between.
InHitTestStep(log) ==
    /\ ReticleWrites(log) # {}
    /\ \A k \in ReticleWrites(log) :
          \E g \in 1..(k - 1) :
              /\ log[g].op = "getPose"
              /\ \A j \in (g + 1)..(k - 1) : log[j].op \in ReticleOps

\* C22: no step changes the position, rotation or scale of an object placed
\* by a select event; the only object a step ever changes is the reticle, and
\* only a frame callback does so, inside its hit-test step.
C22_PlacedObjectsImmutable ==
    [][ /\ \A k \in Placed : objs'[k] = objs[k]
        /\ \A k \in 1..Len(objs) :
              objs'[k] # objs[k] =>
                  /\ k = ReticleId /\ variant \in HitVariants
                  /\ FrameStep /\ InHitTestStep(calls')
      ]_vars

\* An object placed while the reticle stood at the pose its select event saw,
\* then a second select event, then a frame callback that moved the reticle
\* away: the object is where it was placed.
C22_Witness ==
    \E k \in Placed :
        /\ Len(selects) = 2 /\ objs[k].sel = 1
        /\ ~SelectOf(k).moved /\ SelectOf(k).tracker = "Tracking"
        /\ ~ReticleAt(objs, SelectOf(k))
        /\ ReticleWrites(calls) # {}
        /\ objs[k].pos = SelectOf(k).pos

\* The objects a log draws for a view, in the order of the draw calls.
DrawnIn(log, v) ==
    LET ds == SelectSeq(log, LAMBDA e : e.op = "drawElements" /\ e.view = v)
    IN  [k \in 1..Len(ds) |-> ds[k].n]

\* C23: a frame callback with a pose of a program with a scene draws, for
\* each of its views, every object of the scene exactly once, in the order
\* the objects were added, draws for no other view, and leaves the scene and
\* the set of objects as they were when it started.
C23_EachObjectOncePerView ==
    [][ (FrameStep /\ lastFrame'.pose /\ variant \in SceneVariants) =>
            /\ \A v \in 1..lastFrame'.nviews : DrawnIn(calls', v) = scene
            /\ \A d \in Draws(calls') : calls'[d].view \in 1..lastFrame'.nviews
            /\ scene' = scene
            /\ Len(objs') = Len(objs)
      ]_vars

\* A frame of the hit-test program with two views and a scene of the reticle
\* and two placed objects: three draw calls for each view, in scene order.
C23_Witness ==
    /\ variant = "hittest" /\ frameNo > 0 /\ lastFrame.pose
    /\ lastFrame.nviews = 2 /\ scene = <<1, 2, 3>>
    /\ DrawnIn(calls, 1) = scene /\ DrawnIn(calls, 2) = scene

\* C24: a frame callback is pending or has run only when startARSession has
\* gone through all of its awaits: the render layer is set, the viewer, local
\* and unbounded reference spaces are stored and, in the programs with a
\* reticle on a session that offers hit testing, the hit-test source is
\* stored and the select listener added.  Every callback delivered ran in
\* that one step from its request for the next frame to its last statement.
C24_LoopStartsAfterSetup ==
    /\ (session.rafPending > 0 \/ frameNo > 0) =>
          /\ startPc = "done"
          /\ session.baseLayer
          /\ refSpaces.viewer /\ refSpaces.local /\ refSpaces.unbounded
          /\ AsksHitTestSource => (arHitTestSource /\ session.selectListener)
    /\ frameNo > 0 =>
          /\ calls[1].op = "requestAnimationFrame"
          /\ lastFrame.pose =>
                /\ calls[Len(calls)].op = "bindFramebuffer"
                /\ calls[Len(calls)].arg = "null"

\* The occlusion program after its first frame callback, started on a session
\* with hit testing: everything acquired, one callback pending.
C24_Witness ==
    /\ variant = "occlusion" /\ session.hitTestApi
    /\ frameNo = 1 /\ lastFrame.pose /\ session.rafPending = 1
    /\ arHitTestSource /\ refSpaces.unbounded /\ session.baseLayer
    /\ calls[2].op = "getViewerPose" /\ calls[2].arg = "unboundedRefSpace"

\* The transform a select event's object has once onSelect is through.
FinalTransform(sel) ==
    rotate(createModelSceneObjectFromQuats(selects[sel].pos, selects[sel].rot,
                                           ScaleHalf, sel), -QuarterTurn)

\* C25: an object placed by a select event is in the scene only with its final
\* transform, so that every draw call of a frame callback that draws it draws
\* it with that transform, whatever frame callbacks ran while its creation was
\* pending; an object whose creation is pending is not in the scene; and every
\* select event has exactly one object, either pending or, once, in the scene.
C25_NeverPartiallyInitialised ==
    /\ \A k \in Placed : objs[k] = FinalTransform(objs[k].sel)
    /\ \A d \in Draws(calls) :
          (calls[d].op = "drawElements" /\ calls[d].obj.sel > 0) =>
              /\ calls[d].n \in Placed
              /\ calls[d].obj = FinalTransform(calls[d].obj.sel)
    /\ \A s \in 1..Len(selects) :
          /\ Cardinality({k \in Placed : objs[k].sel = s})
                + Cardinality({p \in pending : p.sel = s}) = 1
          /\ \A k \in Placed :
                objs[k].sel = s =>
                    Cardinality({i \in 1..Len(scene) : scene[i] = k}) = 1
    /\ \A i \in 1..Len(scene) : scene[i] \in 1..Len(objs)

\* Two select events; the first one's object is in the scene and was drawn by
\* the latest frame callback with its final transform, while the second one's
\* creation is still pending and that callback has moved the reticle away
\* from the pose the second event saw.
C25_Witness ==
    /\ frameNo = 2 /\ lastFrame.pose /\ Len(selects) = 2
    /\ \E p \in pending : p.sel = 2 /\ ~ReticleAt(objs, selects[2])
    /\ ReticleWrites(calls) # {}
    /\ \E k \in Placed :
          /\ objs[k].sel = 1
          /\ DrawnIn(calls, 1) = <<ReticleId, k>>
          /\ \E d \in Draws(calls) :
                calls[d].n = k /\ calls[d].obj = FinalTransform(1)

====
